---- MODULE Spec2Model ----
(***************************************************************************)
(* Model of src/chatbot/app.py: the cached stock-data fetch                *)
(* (get_stock_data under st.cache_data(ttl=3600)), the Analyze handler,    *)
(* and the two formatting functions display_company_info and               *)
(* generate_investment_analysis.                                           *)
(*                                                                         *)
(* Python values are modelled as tagged records ([py |-> "None"],          *)
(* [py |-> "str", parts |-> ...], [py |-> "int", n |-> ...]); an f-string  *)
(* is the sequence of its pieces.  A dict is a TLA+ record or function     *)
(* whose DOMAIN is the set of its keys.  A DataFrame of quotes is the      *)
(* sequence of its Close values, the empty DataFrame the empty sequence.   *)
(***************************************************************************)
EXTENDS Integers, Sequences, FiniteSets, TLC

VARIABLES now, cache, clicks, ticks, retrieved, last, page, pattern, up, arg, out

vars == <<now, cache, clicks, ticks, retrieved, last, page, pattern, up, arg, out>>

-----------------------------------------------------------------------------
(* Bounds of the model *)

\* number of times the Analyze button is pressed in one behaviour
MaxClicks == 2
\* number of times the clock is advanced in one behaviour
MaxTicks == 1
\* longest price history handed to generate_investment_analysis
MaxLen == 201
\* close prices are drawn from 1..MaxPrice
MaxPrice == 2

(* Program constants *)

\* st.cache_data(ttl=3600)
TTL == 3600
\* rolling(window=50)
Window50 == 50
\* rolling(window=200)
Window200 == 200

-----------------------------------------------------------------------------
(* Python values *)

PyNone == [py |-> "None"]
PyStr(parts) == [py |-> "str", parts |-> parts]
PyInt(n) == [py |-> "int", n |-> n]
\* a float that is not NaN is the exact fraction num/den; rolling().mean() is
\* taken as the exact mean
NaN == [py |-> "float", nan |-> TRUE]
Frac(num, den) == [py |-> "float", nan |-> FALSE, num |-> num, den |-> den]

\* the two code points U+26A0 U+FE0F followed by a blank that open both messages
WarningSign == "[U+26A0 U+FE0F] "

\* truth value of a Python object, as `if x` / `x if c else y` tests it
Truthy(v) ==
    CASE v.py = "None" -> FALSE
      [] v.py = "str" -> v.parts # <<>>
      [] v.py = "int" -> v.n # 0
      [] v.py = "float" -> v.nan \/ v.num # 0
      [] OTHER -> TRUE

\* d.get(k, default)
Get(d, k, default) == IF k \in DOMAIN d THEN d[k] ELSE default

-----------------------------------------------------------------------------
(* The provider (yfinance), a black box *)

Symbols == {"AAPL", "^GSPC"}
Periods == {"1mo", "1y"}
Keys == Symbols \X Periods

\* faults the provider raises: subclasses of Exception with their str()
Faults == { [type |-> "HTTPError", msg |-> "429 Too Many Requests"],
            [type |-> "ConnectionError", msg |-> "Read timed out"] }
AttributeError == [type |-> "AttributeError", msg |-> "no such attribute"]

Data == [tag |-> "data"]
Empty == [tag |-> "empty"]
Absent == [tag |-> "absent"]
Uncalled == [tag |-> "uncalled"]
Fault(e) == [tag |-> "fault", exc |-> e]

\* what Ticker.history / yf.download can do: rows, no rows, or raise
HistOutcomes == {Data, Empty} \cup {Fault(e) : e \in Faults}
\* what reading a Ticker property can do: a value, AttributeError, or raise
MetaOutcomes == {Data, Absent} \cup {Fault(e) : e \in Faults}

\* quotes the per-symbol interface holds for (symbol, period)
PrimaryQuotes(symbol, period) ==
    IF period = "1mo" THEN <<1, 2>> ELSE <<1, 2, 2>>
\* quotes the bulk-download interface holds for (symbol, period)
DownloadQuotes(symbol, period) ==
    IF period = "1mo" THEN <<2, 1>> ELSE <<2, 1, 1>>

\* Ticker.info of a company, and of an index (no market cap, no ratios)
CompanyInfo ==
    [sector |-> PyStr(<<"Technology">>), industry |-> PyStr(<<"Consumer Electronics">>),
     marketCap |-> PyInt(2500000), trailingPE |-> Frac(305, 10), trailingEps |-> Frac(61, 10),
     dividendYield |-> Frac(15, 1000), returnOnEquity |-> Frac(3, 2)]
IndexInfo == [shortName |-> PyStr(<<"S&P 500">>)]
ProviderInfo(symbol) == IF symbol = "AAPL" THEN CompanyInfo ELSE IndexInfo

Table == [df |-> "rows"]
EmptyDataFrame == [df |-> "empty"]
EmptyDict == [k \in {} |-> PyNone]

-----------------------------------------------------------------------------
(* get_stock_data *)

Returned(v, calls) == [kind |-> "return", value |-> v, calls |-> calls]
Raised(e, calls) == [kind |-> "raise", exc |-> e, calls |-> calls]

Call(name, outcome) == [call |-> name, outcome |-> outcome]

NoDataMessage(symbol) ==
    PyStr(<<WarningSign, "No stock data found for '", symbol,
            "'. Ensure the symbol is correct and try again.">>)
ApiErrorMessage(e) == PyStr(<<WarningSign, "API Error: ", e.msg>>)

\* `stock.<attr> if hasattr(stock, '<attr>') else <placeholder>`: hasattr reads the
\* property and turns AttributeError, and nothing else, into False; the second
\* read returns what the Ticker object kept from the first.
SafeAttr(outcome, value, placeholder) ==
    CASE outcome.tag = "data" -> [kind |-> "value", value |-> value]
      [] outcome.tag = "fault" -> [kind |-> "raise", exc |-> outcome.exc]
      [] OTHER -> [kind |-> "value", value |-> placeholder]

\* lines 27-38: the three lookups and the success dict
FetchDetails(symbol, hist, o, calls) ==
    LET info == SafeAttr(o.info, ProviderInfo(symbol), EmptyDict)
        c1 == Append(calls, Call("info", o.info))
        financials == SafeAttr(o.financials, Table, EmptyDataFrame)
        c2 == Append(c1, Call("financials", o.financials))
        recommendations == SafeAttr(o.recommendations, Table, EmptyDataFrame)
        c3 == Append(c2, Call("recommendations", o.recommendations))
    IN  IF info.kind = "raise" THEN Raised(info.exc, c1)
        ELSE IF financials.kind = "raise" THEN Raised(financials.exc, c2)
        ELSE IF recommendations.kind = "raise" THEN Raised(recommendations.exc, c3)
        ELSE Returned([history |-> hist, info |-> info.value,
                       financials |-> financials.value,
                       recommendations |-> recommendations.value,
                       error |-> PyNone], c3)

\* mutant: the second emptiness test is missing
AfterRetrieval_Unchecked(symbol, hist, o, calls) == FetchDetails(symbol, hist, o, calls)

\* lines 24-38: the second emptiness test and what follows it
AfterRetrieval(symbol, hist, o, calls) ==
    IF hist = <<>>
    THEN Returned([error |-> NoDataMessage(symbol)], calls)
    ELSE FetchDetails(symbol, hist, o, calls)

\* lines 19-21: yf.download when Ticker.history gave no rows
SecondAttempt(symbol, period, o, calls) ==
    LET c == Append(calls, Call("download", o.sec))
    IN  CASE o.sec.tag = "fault" -> Raised(o.sec.exc, c)
          [] o.sec.tag = "data" -> AfterRetrieval(symbol, DownloadQuotes(symbol, period), o, c)
          [] OTHER -> AfterRetrieval(symbol, <<>>, o, c)

\* lines 15-38: the body of the try block
TryBody(symbol, period, o) ==
    LET c == <<Call("history", o.prim)>>
    IN  CASE o.prim.tag = "fault" -> Raised(o.prim.exc, c)
          [] o.prim.tag = "data" -> AfterRetrieval(symbol, PrimaryQuotes(symbol, period), o, c)
          [] OTHER -> SecondAttempt(symbol, period, o, c)

\* mutant: the except clause names one exception class only
Caught_HttpOnly(e) == e.type = "HTTPError"

\* `except Exception as e`: every provider fault is an Exception
Caught(e) == TRUE

\* lines 13-40
get_stock_data(symbol, period, o) ==
    LET r == TryBody(symbol, period, o)
    IN  IF r.kind = "raise" /\ Caught(r.exc)
        THEN Returned([error |-> ApiErrorMessage(r.exc)], r.calls)
        ELSE r

\* the provider behaviours one call of get_stock_data can meet: an outcome for
\* each request the call makes, Uncalled for the requests it does not make
Requests == {"history", "download", "info", "financials", "recommendations"}
AllOracles ==
    [prim : HistOutcomes, sec : HistOutcomes \cup {Uncalled},
     info : MetaOutcomes \cup {Uncalled}, financials : MetaOutcomes \cup {Uncalled},
     recommendations : MetaOutcomes \cup {Uncalled}]
Made(r) == {r.calls[i].call : i \in 1..Len(r.calls)}
Component(o, name) ==
    CASE name = "history" -> o.prim
      [] name = "download" -> o.sec
      [] name = "info" -> o.info
      [] name = "financials" -> o.financials
      [] OTHER -> o.recommendations
Oracles ==
    {o \in AllOracles :
        \A name \in Requests :
            (Component(o, name) = Uncalled) <=> (name \notin Made(TryBody("AAPL", "1y", o)))}

-----------------------------------------------------------------------------------------------------------------------------------------------------
(* Numbers and their formatting *)

\* a > b on floats: False as soon as one side is NaN
Greater(a, b) == ~a.nan /\ ~b.nan /\ a.num * b.den > b.num * a.den

Pad2(n) == IF n < 10 THEN <<"0", ToString(n)>> ELSE <<ToString(n)>>
Pad3(n) == IF n < 10 THEN <<"00", ToString(n)>>
           ELSE IF n < 100 THEN <<"0", ToString(n)>> ELSE <<ToString(n)>>

\* format(x, ".2f") of a non-negative float, rounded to the nearest hundredth
Fixed2(x) ==
    IF x.nan THEN <<"nan">>
    ELSE LET cents == (2 * 100 * x.num + x.den) \div (2 * x.den)
         IN  <<ToString(cents \div 100), ".">> \o Pad2(cents % 100)

RECURSIVE Grouped(_)
\* format(n, ",") of a non-negative int
Grouped(n) ==
    IF n < 1000 THEN <<ToString(n)>>
    ELSE Grouped(n \div 1000) \o <<",">> \o Pad3(n % 1000)

ValueError == [type |-> "ValueError", msg |-> "Cannot specify ',' with 's'."]
TypeError == [type |-> "TypeError", msg |-> "unsupported format string passed to NoneType.__format__"]

\* f"{v:,}": only numbers take the thousands separator
FormatComma(v) ==
    CASE v.py = "int" -> [kind |-> "value", value |-> Grouped(v.n)]
      [] v.py = "str" -> [kind |-> "raise", exc |-> ValueError]
      [] OTHER -> [kind |-> "raise", exc |-> TypeError]

NA == PyStr(<<"N/A">>)

-----------------------------------------------------------------------------
(* display_company_info *)

\* line 70
MarketCapCell(info) ==
    IF Truthy(Get(info, "marketCap", PyNone))
    THEN LET f == FormatComma(Get(info, "marketCap", NA))
         IN  IF f.kind = "raise" THEN f
             ELSE [kind |-> "value", value |-> PyStr(<<"$">> \o f.value)]
    ELSE [kind |-> "value", value |-> NA]

\* line 73
DividendCell(info) ==
    IF Truthy(Get(info, "dividendYield", PyNone))
    THEN LET y == Get(info, "dividendYield", PyInt(0))
         IN  PyStr(Fixed2(Frac(y.num * 100, y.den)) \o <<"%">>)
    ELSE PyStr(<<"0%">>)

\* lines 62-76
display_company_info(info) ==
    IF DOMAIN info = {}
    THEN [kind |-> "return", value |-> PyStr(<<"No company information available">>)]
    ELSE LET cap == MarketCapCell(info)
         IN  IF cap.kind = "raise" THEN [kind |-> "raise", exc |-> cap.exc]
             ELSE [kind |-> "return",
                   value |-> [Sector |-> Get(info, "sector", NA),
                              Industry |-> Get(info, "industry", NA),
                              MarketCap |-> cap.value,
                              PERatio |-> Get(info, "trailingPE", NA),
                              EPS |-> Get(info, "trailingEps", NA),
                              DividendYield |-> DividendCell(info)]]

-----------------------------------------------------------------------------
(* generate_investment_analysis *)

RECURSIVE SumRange(_, _, _)
\* closes[lo] + ... + closes[hi]
SumRange(closes, lo, hi) ==
    IF lo > hi THEN 0
    ELSE IF lo = hi THEN closes[lo]
    ELSE LET mid == (lo + hi) \div 2
         IN  SumRange(closes, lo, mid) + SumRange(closes, mid + 1, hi)

\* the sum of the last k values of closes
SumLast(closes, k) == SumRange(closes, Len(closes) - k + 1, Len(closes))

\* hist['Close'].rolling(window=w).mean()[-1]: NaN until the window is full
RollingMeanLast(closes, w) ==
    IF Len(closes) < w THEN NaN ELSE Frac(SumLast(closes, w), w)

\* line 99
Outlook(sma_50, sma_200) == IF Greater(sma_50, sma_200) THEN "Bullish" ELSE "Bearish"

\* lines 86-100
TechnicalSection(symbol, closes) ==
    LET latest_close == Frac(closes[Len(closes)], 1)
        sma_50 == RollingMeanLast(closes, Window50)
        sma_200 == RollingMeanLast(closes, Window200)
    IN  [symbol |-> symbol,
         price |-> Fixed2(latest_close),
         sma50 |-> Fixed2(sma_50),
         sma200 |-> Fixed2(sma_200),
         outlook |-> Outlook(sma_50, sma_200)]

\* line 106
AnalysisMarketCap(info) == FormatComma(Get(info, "marketCap", NA))

\* lines 102-109
FundamentalSection(info) ==
    LET cap == AnalysisMarketCap(info)
    IN  IF cap.kind = "raise" THEN cap
        ELSE [kind |-> "value",
              value |-> [Sector |-> Get(info, "sector", NA),
                         MarketCap |-> PyStr(<<"$">> \o cap.value),
                         PERatio |-> Get(info, "trailingPE", NA),
                         ROE |-> Get(info, "returnOnEquity", NA)]]

NoSection == [omitted |-> TRUE]

\* lines 78-113
generate_investment_analysis(symbol, data) ==
    IF data.history = <<>>
    THEN [kind |-> "return", value |-> PyStr(<<WarningSign, "Insufficient data for analysis">>)]
    ELSE LET technical == TechnicalSection(symbol, data.history)
         IN  IF DOMAIN data.info = {}
             THEN [kind |-> "return",
                   value |-> [technical |-> technical, fundamental |-> NoSection]]
             ELSE LET f == FundamentalSection(data.info)
                  IN  IF f.kind = "raise" THEN [kind |-> "raise", exc |-> f.exc]
                      ELSE [kind |-> "return",
                            value |-> [technical |-> technical, fundamental |-> f.value]]

-----------------------------------------------------------------------------
(* st.cache_data(ttl=3600) *)

NoEntry == [created |-> -1]

\* mutant: the age test is the wrong way round
Live_Reversed(entry, t) == entry # NoEntry /\ t - entry.created > TTL
\* mutant: entries never expire
Live_Forever(entry, t) == entry # NoEntry

\* an entry is served while younger than the ttl
Live(entry, t) == entry # NoEntry /\ t - entry.created < TTL

\* mutant: only successful results are stored
Stored_SuccessOnly(c, key, r, t) ==
    IF r.kind = "return" /\ r.value.error = PyNone
    THEN [c EXCEPT ![key] = [created |-> t, value |-> r.value]]
    ELSE c

\* the cache after the function returned r at time t: a returned value is
\* stored under the arguments, whatever it is; a raised exception is not
Stored(c, key, r, t) ==
    IF r.kind = "return"
    THEN [c EXCEPT ![key] = [created |-> t, value |-> r.value]]
    ELSE c

\* the decorated function called with key = (symbol, period) at time t while
\* the provider behaves as o: the stored value without running the function,
\* or the function's result, which is then stored
CachedCall(c, key, o, t) ==
    IF Live(c[key], t)
    THEN [out |-> Returned(c[key].value, <<>>), cache |-> c]
    ELSE LET r == get_stock_data(key[1], key[2], o)
         IN  [out |-> r, cache |-> Stored(c, key, r, t)]

-----------------------------------------------------------------------------
(* The Analyze handler, the provider's condition and the clock *)

NoCall == [key |-> <<"", "">>]
NoPage == [shown |-> "info"]
NoArg == [fn |-> "none"]

\* the provider answering every request with data
Healthy ==
    [prim |-> Data, sec |-> Uncalled, info |-> Data, financials |-> Data,
     recommendations |-> Data]

\* how the provider answers right now
Provider == IF up THEN Healthy ELSE pattern

\* lines 129-150: the three tabs; an exception raised while a tab is filled
\* ends the script run
Tabs(symbol, data) ==
    LET company == display_company_info(data.info)
        analysis == generate_investment_analysis(symbol, data)
    IN  IF company.kind = "raise" THEN [shown |-> "exception", exc |-> company.exc]
        ELSE IF analysis.kind = "raise" THEN [shown |-> "exception", exc |-> analysis.exc]
        ELSE [shown |-> "tabs",
              chart |-> data.history,
              company |-> company.value,
              financials |-> data.financials # EmptyDataFrame,
              analysis |-> analysis.value,
              recommendations |-> data.recommendations # EmptyDataFrame]

KeyError == [type |-> "KeyError", msg |-> "'error'"]

\* lines 124-150: the page after get_stock_data ended with r
Render(symbol, r) ==
    IF r.kind = "raise" THEN [shown |-> "exception", exc |-> r.exc]
    ELSE IF "error" \notin DOMAIN r.value THEN [shown |-> "exception", exc |-> KeyError]
    ELSE IF Truthy(r.value.error) THEN [shown |-> "error", message |-> r.value.error]
    ELSE Tabs(symbol, r.value)

\* one press of the Analyze button with the sidebar set to (symbol, period)
Analyze(symbol, period) ==
    /\ clicks < MaxClicks
    /\ LET key == <<symbol, period>>
           c == CachedCall(cache, key, Provider, now)
       IN  /\ cache' = c.cache
           /\ last' = [key |-> key, at |-> now, prev |-> retrieved[key],
                       provider |-> Provider, out |-> c.out]
           /\ retrieved' = IF c.out.calls # <<>>
                           THEN [retrieved EXCEPT ![key] = [at |-> now, out |-> c.out]]
                           ELSE retrieved
           /\ page' = Render(symbol, c.out)
    /\ clicks' = clicks + 1
    /\ UNCHANGED <<now, ticks, pattern, up, arg, out>>

\* time passes between two presses
Tick ==
    /\ clicks < MaxClicks
    /\ ticks < MaxTicks
    /\ \E d \in {TTL - 1, TTL, TTL + 1} : now' = now + d
    /\ ticks' = ticks + 1
    /\ UNCHANGED <<cache, clicks, retrieved, last, page, pattern, up, arg, out>>

\* the provider recovers, or falls back into its failure pattern
ProviderFlips ==
    /\ clicks < MaxClicks
    /\ up' = ~up
    /\ UNCHANGED <<now, cache, clicks, ticks, retrieved, last, page, pattern, arg, out>>

Init ==
    /\ now = 0
    /\ cache = [k \in Keys |-> NoEntry]
    /\ clicks = 0
    /\ ticks = 0
    /\ retrieved = [k \in Keys |-> NoEntry]
    /\ last = NoCall
    /\ page = NoPage
    /\ pattern \in Oracles
    /\ up \in BOOLEAN
    /\ arg = NoArg
    /\ out = NoArg

Next ==
    \/ \E symbol \in Symbols, period \in Periods : Analyze(symbol, period)
    \/ Tick
    \/ ProviderFlips

Spec == Init /\ [][Next]_vars

-----------------------------------------------------------------------------
(* Vocabulary of the properties *)

\* the most recent press called get_stock_data, and the provider was contacted
Pressed == last # NoCall
Fresh == Pressed /\ last.out.calls # <<>>

\* the call before it that contacted the provider for the same arguments
HasEarlier == Pressed /\ last.prev # NoEntry
Age == last.at - last.prev.at

IsOk(r) == r.kind = "return" /\ "error" \in DOMAIN r.value /\ r.value.error = PyNone
IsError(r) == r.kind = "return" /\ "error" \in DOMAIN r.value /\ Truthy(r.value.error)

Logged(i, name, outcome) ==
    Len(last.out.calls) >= i /\ last.out.calls[i] = Call(name, outcome)
Downloads == {i \in 1..Len(last.out.calls) : last.out.calls[i].call = "download"}

\* the request whose outcome was a fault other than AttributeError, if any
FaultsLogged ==
    {last.out.calls[i].outcome.exc :
        i \in {j \in 1..Len(last.out.calls) : last.out.calls[j].outcome.tag = "fault"}}
\* every exception a request raised, the AttributeError of a missing attribute included
RaisedLogged ==
    FaultsLogged \cup
    {AttributeError :
        i \in {j \in 1..Len(last.out.calls) : last.out.calls[j].outcome.tag = "absent"}}

IsApiError(r, e) ==
    /\ IsError(r)
    /\ Len(r.value.error.parts) = 3
    /\ r.value.error.parts[2] = "API Error: "
    /\ r.value.error.parts[3] = e.msg

Mentions(message, word) == \E i \in 1..Len(message.parts) : message.parts[i] = word

-----------------------------------------------------------------------------
(* Properties *)

\* C1: a call made less than TTL seconds after the call that last contacted the
\* provider for the same (symbol, period) makes no provider request at all and
\* returns the value that earlier call returned.
C1_RepeatWithinTtlIsServedFromCache ==
    (HasEarlier /\ Age < TTL) =>
        /\ last.out.calls = <<>>
        /\ last.out.kind = "return"
        /\ last.prev.out.kind = "return"
        /\ last.out.value = last.prev.out.value

\* C1 witness: a repeat inside the window while the provider would by now
\* answer differently
C1_Witness ==
    /\ HasEarlier /\ Age < TTL /\ Age > 0
    /\ last.out.calls = <<>>
    /\ get_stock_data(last.key[1], last.key[2], last.provider).value # last.out.value

\* C2: a call made more than TTL seconds after the entry for its (symbol, period)
\* was created contacts the provider again, starting with the primary
\* retrieval, and its result is what the cache then holds for that key.
C2_ExpiredEntryIsRefetchedAndReplaced ==
    (HasEarlier /\ Age > TTL) =>
        /\ Logged(1, "history", last.provider.prim)
        /\ last.out = get_stock_data(last.key[1], last.key[2], last.provider)
        /\ cache[last.key] = [created |-> last.at, value |-> last.out.value]

\* C2 witness: one second past the TTL, and the fresh result differs from the
\* stale one
C2_Witness ==
    /\ HasEarlier /\ Age = TTL + 1
    /\ last.out.value # last.prev.out.value
    /\ cache[last.key].value = last.out.value

\* C3 as claimed: when the primary retrieval returned rows, the call returns
\* error None with exactly those rows as history and never calls yf.download.
C3_PrimaryRowsGiveOk ==
    (Fresh /\ Logged(1, "history", Data)) =>
        /\ IsOk(last.out)
        /\ last.out.value.history = PrimaryQuotes(last.key[1], last.key[2])
        /\ Downloads = {}

\* C4 as claimed: when the primary retrieval returned no rows and the secondary
\* returned rows, the secondary ran exactly once, right after the primary, and
\* the call returns error None with the secondary rows as history.
C4_SecondaryRowsGiveOk ==
    (Fresh /\ Logged(1, "history", Empty) /\ Logged(2, "download", Data)) =>
        /\ Downloads = {2}
        /\ IsOk(last.out)
        /\ last.out.value.history = DownloadQuotes(last.key[1], last.key[2])

\* C5: no call, fresh or served from the cache, returns error None with an empty
\* history, no cache entry holds such a value, and when both retrievals returned
\* no rows the call returns an error message that contains the symbol.
C5_NeverOkWithEmptyHistory ==
    /\ Pressed => (IsOk(last.out) => last.out.value.history # <<>>)
    /\ \A k \in Keys :
          (cache[k] # NoEntry /\ cache[k].value.error = PyNone) => cache[k].value.history # <<>>
    /\ (Fresh /\ Logged(1, "history", Empty) /\ Logged(2, "download", Empty)) =>
          /\ IsError(last.out)
          /\ Mentions(last.out.value.error, last.key[1])

\* C5 witness: both retrievals came back empty
C5_Witness ==
    /\ Fresh /\ Logged(1, "history", Empty) /\ Logged(2, "download", Empty)
    /\ Len(last.out.calls) = 2
    /\ IsError(last.out)

\* the value a lookup must leave in the result: what the provider gave, or the
\* placeholder when the lookup failed in any way
Expected(outcome, value, placeholder) == IF outcome.tag = "data" THEN value ELSE placeholder

\* C6 as claimed: once a retrieval returned rows, the call returns error None
\* with those rows whatever the three lookups do, each failed lookup replaced by
\* its placeholder and each successful one kept.
C6_LookupsAreOptional ==
    LET n == Len(last.out.calls)
        rows == IF Logged(1, "history", Data)
                THEN PrimaryQuotes(last.key[1], last.key[2])
                ELSE DownloadQuotes(last.key[1], last.key[2])
        at == IF Logged(1, "history", Data) THEN 2 ELSE 3
    IN  (Fresh /\ (Logged(1, "history", Data) \/ Logged(2, "download", Data))) =>
            /\ IsOk(last.out)
            /\ n = at + 2
            /\ last.out.value =
                 [history |-> rows,
                  info |-> Expected(last.out.calls[at].outcome,
                                    ProviderInfo(last.key[1]), EmptyDict),
                  financials |-> Expected(last.out.calls[at + 1].outcome,
                                          Table, EmptyDataFrame),
                  recommendations |-> Expected(last.out.calls[at + 2].outcome,
                                               Table, EmptyDataFrame),
                  error |-> PyNone]

\* C7 as claimed: the call never raises, its result always has an error field,
\* and whenever a provider request raised, during a retrieval or a lookup, the
\* result is the API Error message carrying that exception's text.
C7_EveryRaiseBecomesApiError ==
    Pressed =>
        /\ last.out.kind = "return"
        /\ "error" \in DOMAIN last.out.value
        /\ \A e \in RaisedLogged : IsApiError(last.out, e)

\* C7 amended: the call never raises and its result always has an error field
\* the handler can read; whenever a provider request raised anything but the
\* AttributeError that hasattr swallows, the result is the API Error message
\* carrying that exception's text; a swallowed AttributeError alone never
\* produces an API Error.
C7_FaultsBecomeApiError ==
    Pressed =>
        /\ last.out.kind = "return"
        /\ "error" \in DOMAIN last.out.value
        /\ page.shown \in {"error", "tabs"} \/ page.exc.type # "KeyError"
        /\ \A e \in FaultsLogged : IsApiError(last.out, e)
        /\ (Fresh /\ FaultsLogged = {}) => \A e \in Faults \cup {AttributeError} : ~IsApiError(last.out, e)

\* C7 witness: the last of the five requests raised
C7_Witness ==
    /\ Fresh
    /\ Len(last.out.calls) = 4
    /\ last.out.calls[2].outcome = Absent
    /\ last.out.calls[4].call = "recommendations"
    /\ \E e \in Faults : last.out.calls[4].outcome = Fault(e) /\ IsApiError(last.out, e)

\* C10: an error result is cached like a success: a call made less than TTL
\* seconds after a call that contacted the provider and returned an error for
\* the same (symbol, period) returns that error without any provider request;
\* a call whose (symbol, period) was never fetched runs the function itself,
\* whatever the cache holds for other keys.
C10_ErrorsAreCachedPerKey ==
    /\ (HasEarlier /\ Age < TTL /\ IsError(last.prev.out)) =>
          /\ last.out.calls = <<>>
          /\ IsError(last.out)
          /\ last.out.value.error = last.prev.out.value.error
    /\ (Pressed /\ ~HasEarlier) =>
          last.out = get_stock_data(last.key[1], last.key[2], last.provider)

\* C10 witness: the cached error is returned although the provider is healthy again
C10_Witness ==
    /\ HasEarlier /\ Age < TTL /\ Age > 0 /\ IsError(last.prev.out)
    /\ last.provider = Healthy
    /\ last.out.calls = <<>>
    /\ IsError(last.out)
    /\ \E k \in Keys : k # last.key /\ retrieved[k] = NoEntry

-----------------------------------------------------------------------------
(* generate_investment_analysis on price histories of every length *)

\* n closes: price a, then price b for the last k of them
History(n, a, b, k) == [i \in 1..n |-> IF i > n - k THEN b ELSE a]

TechHistories ==
    {History(n, a, b, k) : n \in 1..MaxLen, a \in 1..MaxPrice, b \in 1..MaxPrice,
                           k \in {0, Window50}}

InitTech ==
    /\ now = 0
    /\ cache = [k \in Keys |-> NoEntry]
    /\ clicks = 0
    /\ ticks = 0
    /\ retrieved = [k \in Keys |-> NoEntry]
    /\ last = NoCall
    /\ page = NoPage
    /\ pattern = Healthy
    /\ up = TRUE
    /\ arg \in {[fn |-> "generate_investment_analysis", symbol |-> "AAPL",
                 data |-> [history |-> h, info |-> EmptyDict]] : h \in TechHistories}
    /\ out = NoArg

ComputeTechnical ==
    /\ out = NoArg
    /\ out' = generate_investment_analysis(arg.symbol, arg.data)
    /\ UNCHANGED <<now, cache, clicks, ticks, retrieved, last, page, pattern, up, arg>>

SpecTech == InitTech /\ [][ComputeTechnical]_vars

\* C8 as claimed: with fewer than 50 closes the 50-day average is absent, with
\* fewer than 200 the 200-day average is absent; the outlook is Indeterminate
\* when either is absent, Bullish only when both are present and sma50 > sma200,
\* Bearish only when both are present and sma50 <= sma200.
C8_OutlookNeedsBothAverages ==
    out # NoArg =>
        LET closes == arg.data.history
            t == out.value.technical
            absent50 == t.sma50 = <<"nan">>
            absent200 == t.sma200 = <<"nan">>
            above == SumLast(closes, Window50) * Window200
                        > SumLast(closes, Window200) * Window50
        IN  /\ Len(closes) < Window50 => absent50
            /\ Len(closes) < Window200 => absent200
            /\ (absent50 \/ absent200) => t.outlook = "Indeterminate"
            /\ t.outlook = "Bullish" => (~absent50 /\ ~absent200 /\ above)
            /\ t.outlook = "Bearish" => (~absent50 /\ ~absent200 /\ ~above)


-----------------------------------------------------------------------------
(* The two fundamentals formatters on every sparse profile *)

ProfileKeys ==
    {"sector", "industry", "marketCap", "trailingPE", "trailingEps", "dividendYield",
     "returnOnEquity"}

\* a second company, so that every field is seen with two values
OtherInfo ==
    [sector |-> PyStr(<<"Energy">>), industry |-> PyStr(<<"Oil & Gas">>),
     marketCap |-> PyInt(999), trailingPE |-> Frac(12, 1), trailingEps |-> Frac(1, 4),
     dividendYield |-> Frac(1, 8), returnOnEquity |-> Frac(1, 5)]

Restrict(d, S) == [k \in S |-> d[k]]

Profiles == {Restrict(d, S) : d \in {CompanyInfo, OtherInfo}, S \in SUBSET ProfileKeys}

InitFmt ==
    /\ now = 0
    /\ cache = [k \in Keys |-> NoEntry]
    /\ clicks = 0
    /\ ticks = 0
    /\ retrieved = [k \in Keys |-> NoEntry]
    /\ last = NoCall
    /\ page = NoPage
    /\ pattern = Healthy
    /\ up = TRUE
    /\ arg \in {[fn |-> "fundamentals", info |-> p] : p \in Profiles}
    /\ out = NoArg

Summarize ==
    /\ out = NoArg
    /\ out' = [display |-> display_company_info(arg.info),
               analysis |-> generate_investment_analysis("AAPL",
                               [history |-> <<1, 2>>, info |-> arg.info])]
    /\ UNCHANGED <<now, cache, clicks, ticks, retrieved, last, page, pattern, up, arg>>

SpecFmt == InitFmt /\ [][Summarize]_vars

\* the cell display_company_info shows for a profile key, and its placeholder
DisplayCell(table, k) ==
    CASE k = "sector" -> table.Sector
      [] k = "industry" -> table.Industry
      [] k = "marketCap" -> table.MarketCap
      [] k = "trailingPE" -> table.PERatio
      [] k = "trailingEps" -> table.EPS
      [] OTHER -> table.DividendYield
DisplayKeys == ProfileKeys \ {"returnOnEquity"}
\* the line generate_investment_analysis prints for a profile key
AnalysisCell(section, k) ==
    CASE k = "sector" -> section.Sector
      [] k = "marketCap" -> section.MarketCap
      [] k = "trailingPE" -> section.PERatio
      [] OTHER -> section.ROE
AnalysisKeys == {"sector", "marketCap", "trailingPE", "returnOnEquity"}
Placeholder(k) == IF k = "dividendYield" THEN PyStr(<<"0%">>) ELSE NA

\* C9 as claimed: for every profile both formatters complete without raising,
\* every absent field of the table and of the fundamentals section shows its
\* placeholder, and a present field is shown the same way whichever other
\* fields are absent.
C9_FormattingIsTotal ==
    out # NoArg =>
        /\ out.display.kind = "return"
        /\ out.analysis.kind = "return"
        /\ DOMAIN arg.info # {} =>
              /\ \A k \in DisplayKeys \ DOMAIN arg.info :
                    DisplayCell(out.display.value, k) = Placeholder(k)
              /\ \A k \in AnalysisKeys \ DOMAIN arg.info :
                    AnalysisCell(out.analysis.value.fundamental, k) = Placeholder(k)
              /\ \A k \in DisplayKeys \cap DOMAIN arg.info :
                    DisplayCell(out.display.value, k)
                        = DisplayCell(display_company_info(Restrict(arg.info, {k})).value, k)
              /\ \A k \in AnalysisKeys \cap DOMAIN arg.info :
                    AnalysisCell(out.analysis.value.fundamental, k)
                        = AnalysisCell(FundamentalSection(
                              Restrict(arg.info, {k, "marketCap"} \cap DOMAIN arg.info)).value, k)


====
